---- MODULE Spec2Model ----
(***************************************************************************)
(* State-machine model of the AUTOSAR configuration tool's core:          *)
(* SoftwareComposition, SoftwareComponent, Runnable, Port and Interface,  *)
(* with the three validators and their orchestrator.                      *)
(*                                                                         *)
(* Python objects are modelled by value.  A component is a record         *)
(*   [name, ports, runnables, interfaces]                                  *)
(* where ports is the insertion-ordered dict as a sequence of Port        *)
(* records with pairwise distinct names, runnables is the list of         *)
(* Runnable records and interfaces is the list of references (names) to   *)
(* Interface objects.  Each Interface object's associated_port list is    *)
(* held in the variable associated_port.  None is the empty sequence and  *)
(* a period p is the one-element sequence <<p>>.  A finding (an error     *)
(* string built by an f-string) is a record of its template (kind) and    *)
(* the values substituted into it.                                         *)
(***************************************************************************)
EXTENDS Integers, Sequences, FiniteSets, TLC

\* ------------------------------------------------------------- bounds
MaxPorts == 2
MaxRunnables == 2
MaxAssociated == 3
MaxInterfaces == 2

\* ------------------------------------------------------- input domains
CompNames == {"A", "B"}
PortNames == {"X", "Y", "Z"}
PortTypes == {"sender", "receiver"}
EntityCompNames == {"A"}
EntityPortNames == {"X", "Y"}
EntityPortTypes == {"sender"}
TopoPortNames == {"X", "Y", "Z"}
TopoPortTypes == {"sender"}
RunnableNames == {"r1", "r2"}
Triggers == {"periodic", "event-based"}
None == <<>>
Periods == {None, <<0>>, <<10>>}
InterfaceNames == {"I1"}
\* the runnables given to components of a composition under validation
CompositionRunnables ==
  {[name |-> "r1", trigger |-> "periodic", period |-> None]}
TopoCompNames == <<"A", "B", "C">>

VARIABLES
  software_components,  \* SoftwareComposition.software_components
  associated_port,      \* Interface.associated_port of every Interface object
  ret,                  \* the last call: its name, arguments and outcome
  pc,                   \* validate_topology, stepwise: position of the pass
  root,                 \* index of the for-loop at lines 84-85
  frames,               \* the active visit() calls: component, port and neighbour index
  visited,              \* validate_topology's visited set
  stack,                \* validate_topology's exploration stack
  errors,               \* validate_topology's errors list
  pushed,               \* log of the names pushed on stack during the pass
  popped                \* number of stack.pop() calls during the pass

vars == <<software_components, associated_port, ret, pc, root, frames,
          visited, stack, errors, pushed, popped>>
topoVars == <<pc, root, frames, visited, stack, errors, pushed, popped>>

\* ------------------------------------------------------------ helpers
Range(s) == {s[i] : i \in 1..Len(s)}

RECURSIVE SeqsUpTo(_, _)
\* all sequences over S of length at most n
SeqsUpTo(S, n) ==
  IF n = 0 THEN {<<>>}
  ELSE LET shorter == SeqsUpTo(S, n - 1)
       IN  shorter \cup {Append(s, x) : s \in shorter, x \in S}

\* ------------------------------------------------------- constructors
SoftwareComponent(name) ==
  [name |-> name, runnables |-> <<>>, ports |-> <<>>, interfaces |-> <<>>]

Runnable(name, trigger, period) ==
  [name |-> name, trigger |-> trigger, period |-> period]

Port(name, port_type) == [name |-> name, port_type |-> port_type]

\* Interface.__init__: the object starts with no associated port
Interface == <<>>

\* port_name in component.ports
HasPort(component, port_name) ==
  \E k \in 1..Len(component.ports) : component.ports[k].name = port_name

\* component.ports[port_name]
PortOf(component, port_name) ==
  component.ports[CHOOSE k \in 1..Len(component.ports) :
                    component.ports[k].name = port_name]

\* list_software_components
list_software_components(comps) == [i \in 1..Len(comps) |-> comps[i].name]

\* ------------------------------------------------------------ findings
\* f"Component '{name}' has no ports defined."
NoPortsError(component_name) ==
  [kind |-> "has no ports defined", component |-> component_name]

\* f"Duplicate port names found in component '{name}'."
DuplicatePortsError(component_name) ==
  [kind |-> "Duplicate port names found", component |-> component_name]

\* f"Runnable '{runnable.name}' in component '{name}' is periodic but has no period defined."
PeriodError(runnable_name, component_name) ==
  [kind |-> "is periodic but has no period defined",
   runnable |-> runnable_name, component |-> component_name]

\* f"Sender port '{port}' in component '{component}' has no matching receiver."
SenderError(port_name, component_name) ==
  [kind |-> "Sender port has no matching receiver",
   port |-> port_name, component |-> component_name]

\* f"Receiver port '{port}' in component '{component}' has no matching sender."
ReceiverError(port_name, component_name) ==
  [kind |-> "Receiver port has no matching sender",
   port |-> port_name, component |-> component_name]

\* f"Circular dependency detected involving component '{name}'."
CircularError(component_name) ==
  [kind |-> "Circular dependency detected", component |-> component_name]

\* ------------------------------------------- SoftwareComponent.validate_component
RECURSIVE RunnableErrors_any_trigger(_, _, _)
\* mutant of RunnableErrors: the trigger is not looked at
RunnableErrors_any_trigger(component, k, errs) ==
  IF k > Len(component.runnables) THEN errs
  ELSE LET runnable == component.runnables[k]
       IN  RunnableErrors_any_trigger(component, k + 1,
             IF runnable.period = None
             THEN Append(errs, PeriodError(runnable.name, component.name))
             ELSE errs)

RECURSIVE RunnableErrors(_, _, _)
\* the for-loop over self.runnables, from index k on, extending errs
RunnableErrors(component, k, errs) ==
  IF k > Len(component.runnables) THEN errs
  ELSE LET runnable == component.runnables[k]
       IN  RunnableErrors(component, k + 1,
             IF runnable.trigger = "periodic" /\ runnable.period = None
             THEN Append(errs, PeriodError(runnable.name, component.name))
             ELSE errs)

validate_component(component) ==
  LET keys == {component.ports[k].name : k \in 1..Len(component.ports)}
      e1 == IF Len(component.ports) = 0
            THEN <<NoPortsError(component.name)>> ELSE <<>>
      e2 == IF Len(component.ports) # Cardinality(keys)
            THEN Append(e1, DuplicatePortsError(component.name)) ELSE e1
  IN  RunnableErrors(component, 1, e2)

\* ---------------------------- SoftwareComposition.validate_port_connections
RECURSIVE ComponentPorts(_, _, _)
\* the inner for-loop: (component.name, port) for every port, in dict order
ComponentPorts(component, k, acc) ==
  IF k > Len(component.ports) THEN acc
  ELSE ComponentPorts(component, k + 1,
                      Append(acc, <<component.name, component.ports[k]>>))

RECURSIVE AllPorts(_, _, _)
\* the outer for-loop over self.software_components
AllPorts(comps, i, acc) ==
  IF i > Len(comps) THEN acc
  ELSE AllPorts(comps, i + 1, ComponentPorts(comps[i], 1, acc))

IsSender(p) == p[2].port_type = "sender"
IsReceiver(p) == p[2].port_type = "receiver"

\* any(p[1].name == q[1].name for q in others)
AnySameName(p, others) ==
  \E j \in 1..Len(others) : p[2].name = others[j][2].name

\* mutant of unmatched_senders: one entry per unmatched name, not per port
unmatched_senders_per_name(comps) ==
  LET all_ports == AllPorts(comps, 1, <<>>)
      receiver_ports == SelectSeq(all_ports, IsReceiver)
      sender_ports == SelectSeq(all_ports, IsSender)
      idx == [k \in 1..Len(sender_ports) |-> k]
      Keep(k) == /\ ~AnySameName(sender_ports[k], receiver_ports)
                 /\ ~AnySameName(sender_ports[k], SubSeq(sender_ports, 1, k - 1))
      kept == SelectSeq(idx, Keep)
  IN  [k \in 1..Len(kept) |-> sender_ports[kept[k]]]

unmatched_senders(comps) ==
  LET all_ports == AllPorts(comps, 1, <<>>)
      receiver_ports == SelectSeq(all_ports, IsReceiver)
      Unmatched(p) == ~AnySameName(p, receiver_ports)
  IN  SelectSeq(SelectSeq(all_ports, IsSender), Unmatched)

unmatched_receivers(comps) ==
  LET all_ports == AllPorts(comps, 1, <<>>)
      sender_ports == SelectSeq(all_ports, IsSender)
      Unmatched(p) == ~AnySameName(p, sender_ports)
  IN  SelectSeq(SelectSeq(all_ports, IsReceiver), Unmatched)

validate_port_connections(comps) ==
  LET us == unmatched_senders(comps)
      ur == unmatched_receivers(comps)
  IN  [k \in 1..Len(us) |-> SenderError(us[k][2].name, us[k][1])]
      \o [k \in 1..Len(ur) |-> ReceiverError(ur[k][2].name, ur[k][1])]

\* ------------------------------------ SoftwareComposition.validate_topology
\* [c for c in self.software_components if port.name in c.ports], as indices
connected_components(comps, port_name) ==
  LET idx == [i \in 1..Len(comps) |-> i]
      Has(i) == HasPort(comps[i], port_name)
  IN  SelectSeq(idx, Has)

\* the pass's state at its start: errors, visited, stack
TopoStart == [errors |-> <<>>, visited |-> {}, stack |-> <<>>]

RECURSIVE visit(_, _, _)
RECURSIVE VisitPorts(_, _, _, _)
RECURSIVE VisitConnected(_, _, _, _)

\* visit(component) on the component at index i, from pass state st
visit(comps, i, st) ==
  LET name == comps[i].name IN
  IF name \in Range(st.stack)
  THEN [st EXCEPT !.errors = Append(@, CircularError(name))]
  ELSE IF name \notin st.visited
  THEN LET entered == [st EXCEPT !.stack = Append(@, name),
                                 !.visited = @ \cup {name}]
           left == VisitPorts(comps, i, 1, entered)
       IN  [left EXCEPT !.stack = SubSeq(@, 1, Len(@) - 1)]
  ELSE st

\* for port in component.ports.values(), from port index k on
VisitPorts(comps, i, k, st) ==
  IF k > Len(comps[i].ports) THEN st
  ELSE VisitPorts(comps, i, k + 1,
         VisitConnected(comps,
                        connected_components(comps, comps[i].ports[k].name),
                        1, st))

\* for connected_component in connected_components, from index j on
VisitConnected(comps, connected, j, st) ==
  IF j > Len(connected) THEN st
  ELSE VisitConnected(comps, connected, j + 1, visit(comps, connected[j], st))

RECURSIVE VisitRoots(_, _, _)
\* for component in self.software_components: visit(component)
VisitRoots(comps, i, st) ==
  IF i > Len(comps) THEN st
  ELSE VisitRoots(comps, i + 1, visit(comps, i, st))

validate_topology(comps) == VisitRoots(comps, 1, TopoStart).errors

\* --------------------------------- SoftwareComposition.validate_composition
RECURSIVE ComponentErrors(_, _, _)
\* for component in self.software_components: errors.extend(validate_component())
ComponentErrors(comps, i, errs) ==
  IF i > Len(comps) THEN errs
  ELSE ComponentErrors(comps, i + 1, errs \o validate_component(comps[i]))

\* mutant of validate_composition: topology is validated before the ports
validate_composition_topology_first(comps) ==
  LET e1 == ComponentErrors(comps, 1, <<>>)
      e2 == e1 \o validate_topology(comps)
  IN  e2 \o validate_port_connections(comps)

validate_composition(comps) ==
  LET e1 == ComponentErrors(comps, 1, <<>>)
      e2 == e1 \o validate_port_connections(comps)
  IN  e2 \o validate_topology(comps)

\* ------------------------------------------------------------- state
Init ==
  /\ software_components = <<>>
  /\ associated_port = [i \in InterfaceNames |-> Interface]
  /\ ret = [op |-> "__init__"]
  /\ pc = "idle"
  /\ root = 1
  /\ frames = <<>>
  /\ visited = {}
  /\ stack = <<>>
  /\ errors = <<>>
  /\ pushed = <<>>
  /\ popped = 0

\* mutant of add_software_component: no test for a used name
add_software_component_unchecked(swc) ==
  /\ software_components' = Append(software_components, swc)
  /\ ret' = [op |-> "add_software_component", swc |-> swc, raised |-> "None"]
  /\ UNCHANGED <<associated_port, pc, root, frames, visited, stack, errors,
                 pushed, popped>>

\* -------------------------- SoftwareComposition.add_software_component
add_software_component(swc) ==
  /\ IF \E i \in 1..Len(software_components) :
          software_components[i].name = swc.name
     THEN /\ ret' = [op |-> "add_software_component", swc |-> swc,
                     raised |-> "ValueError"]
          /\ UNCHANGED software_components
     ELSE /\ software_components' = Append(software_components, swc)
          /\ ret' = [op |-> "add_software_component", swc |-> swc,
                     raised |-> "None"]
  /\ UNCHANGED <<associated_port, topoVars>>

\* ---------------------------------------- SoftwareComponent.add_port
\* on the component at index i; port is a Port object, so the isinstance
\* test passes
add_port(i, port) ==
  LET self == software_components[i] IN
  /\ IF HasPort(self, port.name)
     THEN /\ ret' = [op |-> "add_port", raised |-> "ValueError"]
          /\ UNCHANGED software_components
     ELSE /\ Len(self.ports) < MaxPorts
          /\ software_components' =
               [software_components EXCEPT ![i].ports = Append(@, port)]
          /\ ret' = [op |-> "add_port", raised |-> "None"]
  /\ UNCHANGED <<associated_port, topoVars>>

\* ------------------------------------ SoftwareComponent.add_runnable
\* on the component at index i; runnable is a Runnable object
add_runnable(i, runnable) ==
  LET self == software_components[i] IN
  /\ IF \E k \in 1..Len(self.runnables) :
          self.runnables[k].name = runnable.name
     THEN /\ ret' = [op |-> "add_runnable", raised |-> "ValueError"]
          /\ UNCHANGED software_components
     ELSE /\ Len(self.runnables) < MaxRunnables
          /\ software_components' =
               [software_components EXCEPT ![i].runnables = Append(@, runnable)]
          /\ ret' = [op |-> "add_runnable", raised |-> "None"]
  /\ UNCHANGED <<associated_port, topoVars>>

\* ----------------------------------- SoftwareComponent.add_interface
RECURSIVE AssociateLoop(_, _, _, _)
\* for port_name in all_ports, from index k on: the interface's
\* associated_port list and whether the loop raised
AssociateLoop(self, all_ports, k, assoc) ==
  IF k > Len(all_ports) THEN [associated_port |-> assoc, raised |-> "None"]
  ELSE IF HasPort(self, all_ports[k])
  THEN AssociateLoop(self, all_ports, k + 1,
                     Append(assoc, PortOf(self, all_ports[k])))
  ELSE [associated_port |-> assoc, raised |-> "ValueError"]

RECURSIVE SkippingLoop(_, _, _, _)
\* the association loop of the mutant below
SkippingLoop(self, all_ports, k, assoc) ==
  IF k > Len(all_ports) THEN assoc
  ELSE SkippingLoop(self, all_ports, k + 1,
                    IF HasPort(self, all_ports[k])
                    THEN Append(assoc, PortOf(self, all_ports[k]))
                    ELSE assoc)

\* mutant of add_interface: a name that is no port of the component is skipped
add_interface_skipping(i, interface, all_ports) ==
  LET self == software_components[i]
      assoc == SkippingLoop(self, all_ports, 1, associated_port[interface])
  IN
  /\ Len(assoc) <= MaxAssociated
  /\ Len(self.interfaces) < MaxInterfaces
  /\ associated_port' = [associated_port EXCEPT ![interface] = assoc]
  /\ software_components' =
       [software_components EXCEPT ![i].interfaces = Append(@, interface)]
  /\ ret' = [op |-> "add_interface", component |-> i, interface |-> interface,
             all_ports |-> all_ports, raised |-> "None"]
  /\ UNCHANGED <<pc, root, frames, visited, stack, errors, pushed, popped>>

\* on the component at index i, with the Interface object named interface
add_interface(i, interface, all_ports) ==
  LET self == software_components[i]
      loop == AssociateLoop(self, all_ports, 1, associated_port[interface])
  IN
  /\ Len(loop.associated_port) <= MaxAssociated
  /\ associated_port' = [associated_port EXCEPT ![interface] = loop.associated_port]
  /\ IF loop.raised = "None"
     THEN /\ Len(self.interfaces) < MaxInterfaces
          /\ software_components' =
               [software_components EXCEPT ![i].interfaces = Append(@, interface)]
     ELSE UNCHANGED software_components
  /\ ret' = [op |-> "add_interface", component |-> i, interface |-> interface,
             all_ports |-> all_ports, raised |-> loop.raised]
  /\ UNCHANGED topoVars

\* ------------------------------------------------- validator calls
call_validate_component(i) ==
  /\ ret' = [op |-> "validate_component", component |-> i,
             value |-> validate_component(software_components[i])]
  /\ UNCHANGED <<software_components, associated_port, topoVars>>

call_validate_port_connections ==
  /\ ret' = [op |-> "validate_port_connections",
             value |-> validate_port_connections(software_components)]
  /\ UNCHANGED <<software_components, associated_port, topoVars>>

call_validate_topology ==
  /\ ret' = [op |-> "validate_topology",
             value |-> validate_topology(software_components)]
  /\ UNCHANGED <<software_components, associated_port, topoVars>>

call_validate_composition ==
  /\ ret' = [op |-> "validate_composition",
             value |-> validate_composition(software_components)]
  /\ UNCHANGED <<software_components, associated_port, topoVars>>

\* ------------------------------------------------- specifications
\* The composition: components are added and given ports, and the
\* composition-level validators are called.
Next ==
  \/ \E n \in CompNames : add_software_component(SoftwareComponent(n))
  \/ \E i \in 1..Len(software_components), n \in PortNames, t \in PortTypes :
       add_port(i, Port(n, t))
  \/ \E i \in 1..Len(software_components), r \in CompositionRunnables :
       add_runnable(i, r)
  \/ call_validate_port_connections
  \/ call_validate_topology
  \/ call_validate_composition

Spec == Init /\ [][Next]_vars

\* One component: its ports, runnables and interfaces, and its validator.
NextEntity ==
  \/ \E n \in EntityCompNames : add_software_component(SoftwareComponent(n))
  \/ \E i \in 1..Len(software_components), n \in EntityPortNames,
        t \in EntityPortTypes :
       add_port(i, Port(n, t))
  \/ \E i \in 1..Len(software_components), n \in RunnableNames,
        t \in Triggers, p \in Periods :
       add_runnable(i, Runnable(n, t, p))
  \/ \E i \in 1..Len(software_components), f \in InterfaceNames,
        names \in SeqsUpTo(EntityPortNames, 2) :
       add_interface(i, f, names)
  \/ \E i \in 1..Len(software_components) : call_validate_component(i)

SpecEntity == Init /\ [][NextEntity]_vars

\* -------------------- SoftwareComposition.validate_topology, stepwise
\* One pass of validate_topology over a composition, one loop iteration or
\* call per step.  A frame is an active visit(component) call that entered
\* its for-loops: the component's index, the index of the current port and
\* the index of the next entry of connected_components to visit.
Frame(i) == [component |-> i, port |-> 1, connected |-> 1]

\* mutant of Call: the component is pushed but not marked visited
Call_unmarked(i, fr) ==
  LET name == software_components[i].name IN
  IF name \in Range(stack)
  THEN /\ errors' = Append(errors, CircularError(name))
       /\ frames' = fr
       /\ UNCHANGED <<stack, visited, pushed>>
  ELSE IF name \notin visited
  THEN /\ stack' = Append(stack, name)
       /\ pushed' = Append(pushed, name)
       /\ frames' = Append(fr, Frame(i))
       /\ UNCHANGED <<errors, visited>>
  ELSE /\ frames' = fr
       /\ UNCHANGED <<stack, visited, pushed, errors>>

\* the call visit(component) on the component at index i, lines 72-77;
\* fr is the caller's frames
Call(i, fr) ==
  LET name == software_components[i].name IN
  IF name \in Range(stack)
  THEN /\ errors' = Append(errors, CircularError(name))
       /\ frames' = fr
       /\ UNCHANGED <<stack, visited, pushed>>
  ELSE IF name \notin visited
  THEN /\ stack' = Append(stack, name)
       /\ visited' = visited \cup {name}
       /\ pushed' = Append(pushed, name)
       /\ frames' = Append(fr, Frame(i))
       /\ UNCHANGED errors
  ELSE /\ frames' = fr
       /\ UNCHANGED <<stack, visited, pushed, errors>>

Top == frames[Len(frames)]
TopPorts == software_components[Top.component].ports
TopConnected == connected_components(software_components, TopPorts[Top.port].name)

\* lines 66-69: errors = [], visited = set(), stack = []
start_pass ==
  /\ pc = "idle"
  /\ pc' = "roots"
  /\ root' = 1
  /\ errors' = <<>>
  /\ visited' = {}
  /\ stack' = <<>>
  /\ UNCHANGED <<software_components, associated_port, ret, frames, pushed, popped>>

\* lines 84-85: the next iteration of the root loop calls visit(component)
visit_root ==
  /\ pc = "roots"
  /\ frames = <<>>
  /\ root <= Len(software_components)
  /\ root' = root + 1
  /\ Call(root, frames)
  /\ UNCHANGED <<software_components, associated_port, ret, pc, popped>>

\* lines 80-81: the next iteration of the inner loop calls visit(connected_component)
visit_connected ==
  /\ pc = "roots"
  /\ frames # <<>>
  /\ Top.port <= Len(TopPorts)
  /\ Top.connected <= Len(TopConnected)
  /\ Call(TopConnected[Top.connected],
          [frames EXCEPT ![Len(frames)].connected = @ + 1])
  /\ UNCHANGED <<software_components, associated_port, ret, pc, root, popped>>

\* line 78: the inner loop is exhausted, the port loop moves on
next_port ==
  /\ pc = "roots"
  /\ frames # <<>>
  /\ Top.port <= Len(TopPorts)
  /\ Top.connected > Len(TopConnected)
  /\ frames' = [frames EXCEPT ![Len(frames)].port = @ + 1,
                              ![Len(frames)].connected = 1]
  /\ UNCHANGED <<software_components, associated_port, ret, pc, root,
                 visited, stack, errors, pushed, popped>>

\* line 82: the port loop is exhausted, stack.pop() and visit returns
pop ==
  /\ pc = "roots"
  /\ frames # <<>>
  /\ Top.port > Len(TopPorts)
  /\ stack' = SubSeq(stack, 1, Len(stack) - 1)
  /\ popped' = popped + 1
  /\ frames' = SubSeq(frames, 1, Len(frames) - 1)
  /\ UNCHANGED <<software_components, associated_port, ret, pc, root,
                 visited, errors, pushed>>

\* line 87: the root loop is exhausted, return errors
return_errors ==
  /\ pc = "roots"
  /\ frames = <<>>
  /\ root > Len(software_components)
  /\ pc' = "done"
  /\ UNCHANGED <<software_components, associated_port, ret, root, frames,
                 visited, stack, errors, pushed, popped>>

\* the port dicts a component can hold: distinct names, in any order
PortDicts ==
  {s \in SeqsUpTo({Port(n, t) : n \in TopoPortNames, t \in TopoPortTypes}, MaxPorts) :
     \A k, l \in 1..Len(s) : s[k].name = s[l].name => k = l}

\* the compositions a pass is run on: the first n names, each component
\* with any port dict
Compositions ==
  UNION {[1..n -> PortDicts] : n \in 0..Len(TopoCompNames)}

InitTopology ==
  /\ \E ports \in Compositions :
       software_components =
         [i \in 1..Len(ports) |->
            [SoftwareComponent(TopoCompNames[i]) EXCEPT !.ports = ports[i]]]
  /\ associated_port = [i \in InterfaceNames |-> Interface]
  /\ ret = [op |-> "__init__"]
  /\ pc = "idle"
  /\ root = 1
  /\ frames = <<>>
  /\ visited = {}
  /\ stack = <<>>
  /\ errors = <<>>
  /\ pushed = <<>>
  /\ popped = 0

NextTopology ==
  \/ start_pass
  \/ visit_root
  \/ visit_connected
  \/ next_port
  \/ pop
  \/ return_errors

\* The pass is synchronous straight-line code: it always takes its next step.
SpecTopology == InitTopology /\ [][NextTopology]_vars /\ WF_vars(NextTopology)

\* the stepwise pass returns what validate_topology computes
PassAgrees ==
  pc = "done" => errors = validate_topology(software_components)

\* =================================================================
\* Properties
\* =================================================================
\* number of indices of seq holding x
Count(seq, x) == Cardinality({k \in 1..Len(seq) : seq[k] = x})

\* the port names of a component
PortNameSet(component) == {component.ports[k].name : k \in 1..Len(component.ports)}

\* the names carried by some port of the given direction in the composition
NamesOfType(comps, port_type) ==
  UNION {{comps[i].ports[k].name :
            k \in {l \in 1..Len(comps[i].ports) :
                     comps[i].ports[l].port_type = port_type}} :
         i \in 1..Len(comps)}

\* the index of the component of that name
IndexOf(comps, name) == CHOOSE i \in 1..Len(comps) : comps[i].name = name

\* ------------------------------------------------------------- C1
\* two components, one port each, of the same name, the first a sender
\* and the second a receiver
IsSenderReceiverPair(comps) ==
  /\ Len(comps) = 2
  /\ Len(comps[1].ports) = 1
  /\ Len(comps[2].ports) = 1
  /\ comps[1].ports[1].name = comps[2].ports[1].name
  /\ comps[1].ports[1].port_type = "sender"
  /\ comps[2].ports[1].port_type = "receiver"

\* C1: for two components with one port each, both of the same name, one a
\* sender and the other a receiver, validate_port_connections returns no
\* finding and validate_topology returns no finding.
C1_PairHasNoFinding ==
  IsSenderReceiverPair(software_components) =>
    /\ ret.op = "validate_port_connections" => ret.value = <<>>
    /\ ret.op = "validate_topology" => ret.value = <<>>

\* ------------------------------------------------------------- C3
\* C3: validate_port_connections returns exactly one finding for every
\* sender port whose name no receiver port of the composition carries, one
\* for every receiver port whose name no sender port carries, nothing else,
\* and so no finding for a name carried by a sender and by a receiver.
C3_OneFindingPerUnmatchedPort ==
  ret.op = "validate_port_connections" =>
    LET comps == software_components
        senders == NamesOfType(comps, "sender")
        receivers == NamesOfType(comps, "receiver")
    IN
    /\ \A i \in 1..Len(comps) : \A k \in 1..Len(comps[i].ports) :
         LET port == comps[i].ports[k] IN
         /\ Count(ret.value, SenderError(port.name, comps[i].name)) =
              (IF port.port_type = "sender" /\ port.name \notin receivers
               THEN 1 ELSE 0)
         /\ Count(ret.value, ReceiverError(port.name, comps[i].name)) =
              (IF port.port_type = "receiver" /\ port.name \notin senders
               THEN 1 ELSE 0)
    /\ \A e \in 1..Len(ret.value) :
         LET f == ret.value[e] IN
         /\ f.kind \in {"Sender port has no matching receiver",
                         "Receiver port has no matching sender"}
         /\ f.port \notin senders \cap receivers
         /\ \E i \in 1..Len(comps) :
              comps[i].name = f.component /\ f.port \in PortNameSet(comps[i])

\* the same unmatched sender name on two components gave two findings,
\* while another name is matched
C3_Witness ==
  /\ ret.op = "validate_port_connections"
  /\ Len(software_components) = 2
  /\ \E n \in PortNames :
       /\ Port(n, "sender") \in Range(software_components[1].ports)
       /\ Port(n, "sender") \in Range(software_components[2].ports)
       /\ Count(ret.value, SenderError(n, software_components[1].name)) = 1
       /\ Count(ret.value, SenderError(n, software_components[2].name)) = 1
  /\ NamesOfType(software_components, "sender")
       \cap NamesOfType(software_components, "receiver") # {}

\* ------------------------------------------------------------- C4
\* C4: add_software_component with a used name raises ValueError and leaves
\* the component list as it was; with an unused name it appends the
\* component at the end; the names in the list are always pairwise distinct.
C4_AddSoftwareComponent ==
  /\ [](\A i, j \in 1..Len(software_components) :
          software_components[i].name = software_components[j].name => i = j)
  /\ [][ret'.op = "add_software_component" =>
          IF ret'.swc.name \in Range(list_software_components(software_components))
          THEN /\ ret'.raised = "ValueError"
               /\ software_components' = software_components
          ELSE /\ ret'.raised = "None"
               /\ software_components' = Append(software_components, ret'.swc)]_vars

\* a used name was refused while the composition holds two components
C4_Witness ==
  /\ ret.op = "add_software_component"
  /\ ret.raised = "ValueError"
  /\ Len(software_components) = 2
  /\ ret.swc.name = software_components[1].name

\* ------------------------------------------------------------- C5
StructuralKinds ==
  {"has no ports defined", "Duplicate port names found",
   "is periodic but has no period defined"}
IsStructural(f) == f.kind \in StructuralKinds
IsUnmatchedSender(f) == f.kind = "Sender port has no matching receiver"
IsUnmatchedReceiver(f) == f.kind = "Receiver port has no matching sender"
IsPortFinding(f) == IsUnmatchedSender(f) \/ IsUnmatchedReceiver(f)
IsCircular(f) == f.kind = "Circular dependency detected"

\* the place of a finding's group in the report
Group(f) ==
  IF IsStructural(f) THEN 1
  ELSE IF IsUnmatchedSender(f) THEN 2
  ELSE IF IsUnmatchedReceiver(f) THEN 3
  ELSE 4

\* C5: validate_composition returns the structural findings of the
\* components in insertion order, then the unmatched senders, then the
\* unmatched receivers, each in component order, then the topology findings;
\* each group is what its validator returns, and the report is empty exactly
\* when no validator reports a finding.
C5_ReportOrder ==
  ret.op = "validate_composition" =>
    LET comps == software_components
        report == ret.value
    IN
    /\ \A a, b \in 1..Len(report) :
         a < b =>
           /\ Group(report[a]) <= Group(report[b])
           /\ (Group(report[a]) = Group(report[b]) /\ Group(report[a]) < 4) =>
                IndexOf(comps, report[a].component)
                  <= IndexOf(comps, report[b].component)
    /\ SelectSeq(report, IsStructural) = ComponentErrors(comps, 1, <<>>)
    /\ SelectSeq(report, IsPortFinding) = validate_port_connections(comps)
    /\ SelectSeq(report, IsCircular) = validate_topology(comps)
    /\ (report = <<>>) <=>
         /\ \A i \in 1..Len(comps) : validate_component(comps[i]) = <<>>
         /\ validate_port_connections(comps) = <<>>
         /\ validate_topology(comps) = <<>>

\* a report with findings of every group, the structural ones from two
\* components and an unmatched sender of the second component ahead of an
\* unmatched receiver of the first
C5_Witness ==
  /\ ret.op = "validate_composition"
  /\ Len(software_components) = 2
  /\ \A i \in 1..2 :
       \E e \in 1..Len(ret.value) :
         IsStructural(ret.value[e])
           /\ ret.value[e].component = software_components[i].name
  /\ \E a, b \in 1..Len(ret.value) :
       /\ a < b
       /\ IsUnmatchedSender(ret.value[a])
       /\ ret.value[a].component = software_components[2].name
       /\ IsUnmatchedReceiver(ret.value[b])
       /\ ret.value[b].component = software_components[1].name
  /\ \E e \in 1..Len(ret.value) : IsCircular(ret.value[e])

\* ------------------------------------------------------------- C6
\* C6: validate_component returns exactly one period finding, naming the
\* runnable and the component, for every runnable that is periodic with
\* period None, and none for any other runnable.
C6_OnePeriodFindingPerUnit ==
  ret.op = "validate_component" =>
    LET self == software_components[ret.component] IN
    /\ \A k \in 1..Len(self.runnables) :
         LET runnable == self.runnables[k] IN
         Count(ret.value, PeriodError(runnable.name, self.name)) =
           (IF runnable.trigger = "periodic" /\ runnable.period = None
            THEN 1 ELSE 0)
    /\ \A e \in 1..Len(ret.value) :
         ret.value[e].kind = "is periodic but has no period defined" =>
           \E k \in 1..Len(self.runnables) :
             ret.value[e] = PeriodError(self.runnables[k].name, self.name)

\* a component with a periodic and an event-based runnable, both with
\* period None, was validated
C6_Witness ==
  /\ ret.op = "validate_component"
  /\ \E k, l \in 1..Len(software_components[ret.component].runnables) :
       LET rs == software_components[ret.component].runnables IN
       /\ rs[k].trigger = "periodic" /\ rs[k].period = None
       /\ rs[l].trigger = "event-based" /\ rs[l].period = None
       /\ Count(ret.value, PeriodError(rs[k].name,
                                       software_components[ret.component].name)) = 1

\* ------------------------------------------------------------- C7
\* C7: every registered runnable has no period when it is event-based and
\* a positive period when it is periodic.
C7_PeriodMatchesTrigger ==
  \A i \in 1..Len(software_components) :
    \A k \in 1..Len(software_components[i].runnables) :
      LET runnable == software_components[i].runnables[k] IN
      /\ runnable.trigger = "event-based" => runnable.period = None
      /\ runnable.trigger = "periodic" =>
           runnable.period # None /\ runnable.period[1] > 0

\* ------------------------------------------------------------- C8
\* every name of the list is the name of a port of the component
AllRegistered(self, all_ports) ==
  \A k \in 1..Len(all_ports) : all_ports[k] \in PortNameSet(self)

\* the ports of the component that the list names, in list order
NamedPorts(self, all_ports) ==
  [k \in 1..Len(all_ports) |->
     CHOOSE port \in Range(self.ports) : port.name = all_ports[k]]

\* C8 as stated: add_interface raises ValueError and does not add the
\* interface when some name is no port of the component; otherwise it adds
\* the interface, whose associated ports are then exactly the named ports,
\* in list order.
C8_AssociatedAreExactlyNamed ==
  [][ret'.op = "add_interface" =>
      LET self == software_components[ret'.component]
          after == software_components'[ret'.component]
      IN
      IF AllRegistered(self, ret'.all_ports)
      THEN /\ ret'.raised = "None"
           /\ after.interfaces = Append(self.interfaces, ret'.interface)
           /\ associated_port'[ret'.interface] = NamedPorts(self, ret'.all_ports)
      ELSE /\ ret'.raised = "ValueError"
           /\ after.interfaces = self.interfaces]_vars

\* C8, amended: add_interface raises ValueError and does not add the
\* interface when some name is no port of the component; otherwise it adds
\* the interface and appends the named ports, in list order, to the ports
\* the interface was already associated with.
C8_NamedAreAppended ==
  [][ret'.op = "add_interface" =>
      LET self == software_components[ret'.component]
          after == software_components'[ret'.component]
      IN
      IF AllRegistered(self, ret'.all_ports)
      THEN /\ ret'.raised = "None"
           /\ after.interfaces = Append(self.interfaces, ret'.interface)
           /\ associated_port'[ret'.interface] =
                associated_port[ret'.interface] \o NamedPorts(self, ret'.all_ports)
      ELSE /\ ret'.raised = "ValueError"
           /\ after.interfaces = self.interfaces]_vars

\* a call naming two registered ports succeeded on an interface that was
\* already associated with a port and already in the component's list
C8_Witness ==
  /\ ret.op = "add_interface"
  /\ ret.raised = "None"
  /\ Len(ret.all_ports) = 2
  /\ Len(associated_port[ret.interface]) = 3
  /\ Len(software_components[ret.component].interfaces) = 2

\* ------------------------------------------------------------- C9
\* C9: an add_interface call that raises leaves the interface's associated
\* ports and the component as they were.
C9_FailedCallHasNoEffect ==
  [][(ret'.op = "add_interface" /\ ret'.raised = "ValueError") =>
      /\ associated_port' = associated_port
      /\ software_components' = software_components]_vars

\* ------------------------------------------------------------- C2
\* the names two components share
Shared(comps, i, j) == PortNameSet(comps[i]) \cap PortNameSet(comps[j])

\* three components, each pair sharing one port name of its own
IsTriangle(comps) ==
  /\ Len(comps) = 3
  /\ Cardinality(Shared(comps, 1, 2)) = 1
  /\ Cardinality(Shared(comps, 2, 3)) = 1
  /\ Cardinality(Shared(comps, 1, 3)) = 1
  /\ Shared(comps, 1, 2) \cap Shared(comps, 2, 3) = {}
  /\ Shared(comps, 1, 2) \cap Shared(comps, 1, 3) = {}
  /\ Shared(comps, 2, 3) \cap Shared(comps, 1, 3) = {}

\* C2: on three components of which each pair shares one port name of its
\* own, validate_topology returns exactly one circular-dependency finding.
C2_TriangleHasOneFinding ==
  (pc = "done" /\ IsTriangle(software_components)) => Len(errors) = 1

\* ------------------------------------------------------------ C10
\* C10: a pass of validate_topology ends; no component is pushed on the
\* stack twice, a component is marked visited exactly when it is pushed,
\* pops never outnumber pushes, and when the pass returns every push has
\* been popped and the stack is empty.
C10_PassTerminates ==
  /\ <>(pc = "done")
  /\ [](/\ \A a, b \in 1..Len(pushed) : pushed[a] = pushed[b] => a = b
        /\ visited = Range(pushed)
        /\ Len(stack) = Len(pushed) - popped
        /\ pc = "done" => (stack = <<>> /\ popped = Len(pushed)))

\* a pass over three connected components has returned: each was pushed,
\* and one was reached again after its own visit had returned
C10_Witness ==
  /\ pc = "done"
  /\ Len(software_components) = 3
  /\ Len(pushed) = 3
  /\ popped = 3
  /\ Len(errors) > 3
  /\ IsTriangle(software_components)

====
